---------------------------- MODULE Spec2Model ----------------------------
(***************************************************************************)
(* A model of astroNN's NeuralNetMaster (astroNN/models/NeuralNetMaster.py):*)
(* the pre-training checklist (train/validation split and shape inference),*)
(* save() (run folder resolution and the hyperparameter file) and the      *)
(* jacobian() routine (input validation, branch on the input layer's rank, *)
(* one graph evaluation per sample).                                       *)
(*                                                                         *)
(* Python values are records [kind, dims]; an ndarray is identified with   *)
(* its shape, a sequence of positive dimensions (shape[0] is the row or    *)
(* sample count).                                                          *)
(***************************************************************************)
EXTENDS Integers, Sequences, FiniteSets, TLC

VARIABLES
    val_size,            \* self.val_size: None, int 0 or a float in [0,1)
    val_num,             \* self.val_num
    num_train,           \* self.num_train
    input_shape,         \* self.input_shape
    labels_shape,        \* self.labels_shape
    folder_name,         \* self.folder_name
    fullfilepath,        \* self.fullfilepath
    hyper_txt,           \* self.hyper_txt: the open file handle
    input_mean,          \* self.input_mean / self.input_std (fitted or None)
    keras_model,         \* self.keras_model
    keras_model_predict, \* self.keras_model_predict
    dirs,                \* the folders that exist under currentdir
    files,               \* folder -> content of its hyperparameter.txt
    pc,                  \* "idle", or "loop" inside jacobian's sample loop
    x_data,              \* jacobian: the local x_data (its shape)
    jac,                 \* jacobian: the local result array
    i,                   \* jacobian: the sample loop's index
    monoflag,            \* jacobian: the local monoflag
    outcome              \* the last call: how it ended and what it did

vars == <<val_size, val_num, num_train, input_shape, labels_shape,
          folder_name, fullfilepath, hyper_txt, input_mean, keras_model,
          keras_model_predict, dirs, files, pc, x_data, jac, i, monoflag,
          outcome>>

checklistVars == <<val_size, val_num, num_train, input_shape, labels_shape>>
saveVars      == <<folder_name, fullfilepath, hyper_txt, dirs, files>>
kerasVars     == <<input_mean, keras_model, keras_model_predict>>
jacobianVars  == <<pc, x_data, jac, i, monoflag>>

---------------------------------------------------------------------------
(* Bounds of the model.                                                    *)

MaxRows == 3      \* rows (samples) of an array: 1..MaxRows
MaxDim == 2       \* a non-row dimension is 1 or MaxDim
ValBits == 2      \* val_size floats are k / 2^ValBits
MaxSaves == 2     \* blocks written to hyperparameter files in all
MaxRun == 2       \* run-numbered folder names run001..run00<MaxRun>
MaxSamples == 3   \* samples of an array given to jacobian: 1..MaxSamples

(* Ranks the shape inference maps: ndim == 1 .. ndim == 4.                 *)
MaxInferRank == 4

---------------------------------------------------------------------------
(* Python values.                                                          *)

None       == [kind |-> "None",  dims |-> <<>>]
PyInt(n)   == [kind |-> "int",   dims |-> <<n>>]
PyFloat(k) == [kind |-> "float", dims |-> <<k>>]   \* the float k / Scale
PyTuple(s) == [kind |-> "tuple", dims |-> s]
PyStr(n)   == [kind |-> "str",   dims |-> <<n>>]   \* the n-th folder name

RECURSIVE Pow2(_)
Pow2(n) == IF n = 0 THEN 1 ELSE 2 * Pow2(n - 1)

Scale == Pow2(ValBits)

(* int(): truncation of the non-negative quotient num / den.               *)
IntTrunc(num, den) == num \div den

(* ndarrays, by shape.                                                     *)
Dims == {1, MaxDim}

RECURSIVE Shapes(_)
Shapes(r) == IF r = 0 THEN {<<>>}
             ELSE {Append(s, d) : s \in Shapes(r - 1), d \in Dims}

ndim(a) == Len(a)

(* The arrays of rank 1..5 with up to R rows.                              *)
ArraysOf(R) == {<<n>> \o s : n \in 1..R,
                             s \in UNION {Shapes(r) : r \in 0..MaxInferRank}}

Arrays == ArraysOf(MaxRows)

(* One array of every rank 1..5: MaxRows rows, other dimensions MaxDim.    *)
RankArrays == {[k \in 1..r |-> IF k = 1 THEN MaxRows ELSE MaxDim] :
                  r \in 1..(MaxInferRank + 1)}

(* The arrays of MaxRows rows: every rank, every combination of the other  *)
(* dimensions.                                                             *)
ShapeArrays == {a \in Arrays : a[1] = MaxRows}

(* Arrays of rank 1 and 2 with every row count.                            *)
RowArrays == {a \in Arrays : ndim(a) <= 2}

---------------------------------------------------------------------------
(* __init__                                                                *)

(* What a call of jacobian did: the model whose input layer it looked up,  *)
(* the branch it took (the expected rank), the gradient graphs it built,   *)
(* whether it allocated the result array, the samples it evaluated, its    *)
(* mean_output and the shape of the array it returned.                     *)
NoTrace   == [lookup |-> "", branch |-> 0, built |-> 0, allocated |-> FALSE,
              runs |-> <<>>, mean |-> FALSE, ret |-> <<>>]
NoOutcome == [op |-> "__init__", status |-> "returned", msg |-> "", n |-> 0,
              arg |-> None, did |-> NoTrace]
NoArray   == [shape |-> <<>>, written |-> <<>>]

Init ==
    /\ val_size = None
    /\ val_num = None
    /\ num_train = None
    /\ input_shape = None
    /\ labels_shape = None
    /\ folder_name = None
    /\ fullfilepath = None
    /\ hyper_txt = [kind |-> "None", dims |-> <<>>, mode |-> ""]
    /\ input_mean = None
    /\ keras_model = None
    /\ keras_model_predict = None
    /\ dirs = {}
    /\ files = [f \in {} |-> None]
    /\ pc = "idle"
    /\ x_data = <<>>
    /\ jac = NoArray
    /\ i = 0
    /\ monoflag = FALSE
    /\ outcome = NoOutcome

(* How a call ended: op is the call, status "returned" or the exception's  *)
(* class, msg the exception's message, arg the call's argument where one   *)
(* is recorded and n a count the call reports.                             *)
Returned(op, arg, n) ==
    [op |-> op, status |-> "returned", msg |-> "", n |-> n, arg |-> arg,
     did |-> NoTrace]

---------------------------------------------------------------------------
(* pre_training_checklist_master                                           *)

(* val_size as a numerator over Scale (the int 0 of line 107 is 0/Scale).  *)
ValNumerator(v) == IF v.kind = "int" THEN v.dims[1] * Scale ELSE v.dims[1]

(* SplitCounts with val_num rounded to the nearest integer.                 *)
SplitCountsRounded(rows, v) ==
    LET vn == IntTrunc(2 * rows * ValNumerator(v) + Scale, 2 * Scale)
    IN  <<vn, rows - vn>>

(* Lines 108-109: <<val_num, num_train>> for a row count and a val_size.   *)
SplitCounts(rows, v) ==
    LET vn == IntTrunc(rows * ValNumerator(v), Scale)
    IN  <<vn, rows - vn>>

(* InferInputShape without the channel axis appended to a rank-3 input.    *)
InferInputShapeNoChannel(cur, input_data) ==
    CASE ndim(input_data) = 1 -> PyTuple(<<1, 1>>)
      [] ndim(input_data) = 2 -> PyTuple(<<input_data[2], 1>>)
      [] ndim(input_data) = 3 -> PyTuple(<<input_data[2], input_data[3]>>)
      [] ndim(input_data) = 4 ->
             PyTuple(<<input_data[2], input_data[3], input_data[4]>>)
      [] OTHER -> cur

(* Lines 114-121: the if/elif chain on input_data.ndim; no branch matches  *)
(* for another rank and the attribute keeps its value.                     *)
InferInputShape(cur, input_data) ==
    CASE ndim(input_data) = 1 -> PyTuple(<<1, 1>>)
      [] ndim(input_data) = 2 -> PyTuple(<<input_data[2], 1>>)
      [] ndim(input_data) = 3 -> PyTuple(<<input_data[2], input_data[3], 1>>)
      [] ndim(input_data) = 4 ->
             PyTuple(<<input_data[2], input_data[3], input_data[4]>>)
      [] OTHER -> cur

(* Lines 123-130: the if/elif chain on labels.ndim.                        *)
InferLabelsShape(cur, labels) ==
    CASE ndim(labels) = 1 -> PyInt(1)
      [] ndim(labels) = 2 -> PyInt(labels[2])
      [] ndim(labels) = 3 -> PyTuple(<<labels[2], labels[3]>>)
      [] ndim(labels) = 4 -> PyTuple(<<labels[2], labels[3], labels[4]>>)
      [] OTHER -> cur

(* InferShapes without the test of line 113: every call infers.            *)
InferShapesAlways(inp, lab, input_data, labels) ==
    <<InferInputShape(inp, input_data), InferLabelsShape(lab, labels)>>

(* InferShapes with each attribute inferred when it is itself unset.       *)
InferShapesEachWhenUnset(inp, lab, input_data, labels) ==
    << IF inp = None THEN InferInputShape(inp, input_data) ELSE inp,
       IF lab = None THEN InferLabelsShape(lab, labels) ELSE lab >>

(* Line 113: both inferences sit in the branch taken when input_shape is   *)
(* None.                                                                   *)
InferShapes(inp, lab, input_data, labels) ==
    IF inp = None
    THEN <<InferInputShape(inp, input_data), InferLabelsShape(lab, labels)>>
    ELSE <<inp, lab>>

pre_training_checklist_master(input_data, labels) ==
    LET vs     == IF val_size = None THEN PyInt(0) ELSE val_size
        split  == SplitCounts(input_data[1], vs)
        shapes == InferShapes(input_shape, labels_shape, input_data, labels)
    IN  /\ pc = "idle"
        /\ val_size' = vs
        /\ val_num' = PyInt(split[1])
        /\ num_train' = PyInt(split[2])
        /\ input_shape' = shapes[1]
        /\ labels_shape' = shapes[2]
        /\ outcome' = Returned("pre_training_checklist_master", None,
                            input_data[1])
        /\ UNCHANGED <<saveVars, kerasVars, jacobianVars>>

(* The caller assigns the public attribute val_size a float in [0,1).      *)
SetValSize(k) ==
    /\ pc = "idle"
    /\ val_size' = PyFloat(k)
    /\ outcome' = Returned("set val_size", None, 0)
    /\ UNCHANGED <<val_num, num_train, input_shape, labels_shape,
                   saveVars, kerasVars, jacobianVars>>

(* The caller resets the public shape attributes to None.                  *)
ResetShapes ==
    /\ pc = "idle"
    /\ input_shape' = None
    /\ labels_shape' = None
    /\ outcome' = Returned("reset shapes", None, 0)
    /\ UNCHANGED <<val_size, val_num, num_train,
                   saveVars, kerasVars, jacobianVars>>

NextShapes ==
    \/ \E input_data \in ShapeArrays, labels \in ShapeArrays :
           pre_training_checklist_master(input_data, labels)
    \/ ResetShapes

SpecShapes == Init /\ [][NextShapes]_vars

NextSplit ==
    \/ \E input_data \in RowArrays, labels \in RowArrays :
           /\ input_data[1] = labels[1]
           /\ pre_training_checklist_master(input_data, labels)
    \/ \E k \in 0..(Scale - 1) : SetValSize(k)

SpecSplit == Init /\ [][NextSplit]_vars


---------------------------------------------------------------------------
(* save                                                                    *)

(* Folder names: 0 is a name the caller chose, n >= 1 the run-numbered     *)
(* name of run n.                                                          *)
Names == {PyStr(n) : n \in 0..MaxRun}

(* folder_runnum(): the first run-numbered name that is not taken.         *)
FreeRuns == {n \in 1..MaxRun : PyStr(n) \notin dirs}
folder_runnum == PyStr(CHOOSE n \in FreeRuns : \A m \in FreeRuns : n <= m)

(* ResolveFolder asking for a new run folder whenever no name is given.    *)
ResolveFolderFresh(cur, name) ==
    IF name # None THEN name
    ELSE IF FreeRuns # {} THEN folder_runnum ELSE cur

(* Lines 142-146: the folder save() writes to.                             *)
ResolveFolder(cur, name) ==
    IF cur = None /\ name = None THEN folder_runnum
    ELSE IF name # None THEN name ELSE cur

(* os.path.join(self.currentdir, folder_name + '/')                        *)
PathJoin(dir, name) == [kind |-> "path", dims |-> <<dir>> \o name.dims]
currentdir == 0

Line(key, value) == [key |-> key, value |-> value]
Separator == <<Line("\n", None), Line("======Another Run======", None)>>

batch_size == 64
EnvStr == [kind |-> "env", dims |-> <<>>]

(* Lines 160-176: the block of key/value lines one save writes.            *)
HyperBlock(fn) ==
    << Line("Model", None),
       Line("Model Type", None),
       Line("astroNN identifier", EnvStr),
       Line("Python Version", EnvStr),
       Line("astroNN Version", EnvStr),
       Line("Keras Version", EnvStr),
       Line("Tensorflow Version", EnvStr),
       Line("Folder Name", fn),
       Line("Batch size", PyInt(batch_size)),
       Line("Optimizer", EnvStr),
       Line("Maximum Epochs", None),
       Line("Learning Rate", None),
       Line("Validation Size", val_size),
       Line("Input Shape", input_shape),
       Line("Label Shape", labels_shape),
       Line("Number of Training Data", num_train),
       Line("Number of Validation Data", val_num) >>

isfile(fn) == fn \in DOMAIN files /\ files[fn].exists
FileText(fn) == IF fn \in DOMAIN files THEN files[fn].text ELSE <<>>

(* OpenAndMark opening with 'w' whether or not the file exists.            *)
OpenTruncating(fn) == <<>>

(* Lines 154-159: open(path, 'a') keeps the content and the separator is   *)
(* written; open(path, 'w') starts from an empty file.                     *)
OpenAndMark(fn) ==
    IF isfile(fn) THEN FileText(fn) \o Separator ELSE <<>>

OpenMode(fn) == IF isfile(fn) THEN "a" ELSE "w"

(* The blocks written to every file so far.                                *)
BlocksOf(text) == Cardinality({k \in 1..Len(text) : text[k].key = "Model"})
TotalBlocks ==
    LET RECURSIVE Sum(_)
        Sum(S) == IF S = {} THEN 0
                  ELSE LET f == CHOOSE f \in S : TRUE
                       IN  BlocksOf(files[f].text) + Sum(S \ {f})
    IN  Sum(DOMAIN files)

save(name) ==
    /\ pc = "idle"
    /\ TotalBlocks < MaxSaves
    /\ (folder_name = None /\ name = None) => FreeRuns # {}
    /\ LET fn == ResolveFolder(folder_name, name)
       IN  /\ folder_name' = fn
           /\ dirs' = dirs \cup {fn}
           /\ fullfilepath' = PathJoin(currentdir, fn)
           /\ hyper_txt' = [kind |-> "file", dims |-> fn.dims,
                            mode |-> OpenMode(fn)]
           /\ files' = [f \in DOMAIN files \cup {fn} |->
                          IF f = fn
                          THEN [exists |-> TRUE,
                                text |-> OpenAndMark(fn) \o HyperBlock(fn)]
                          ELSE files[f]]
           /\ outcome' = Returned("save", name,
                             IF folder_name = None /\ name = None
                             THEN 1 ELSE 0)
    /\ UNCHANGED <<checklistVars, kerasVars, jacobianVars>>

(* The caller resets the public attribute folder_name to None.             *)
ResetFolderName ==
    /\ pc = "idle"
    /\ folder_name' = None
    /\ outcome' = Returned("reset folder_name", None, 0)
    /\ UNCHANGED <<fullfilepath, hyper_txt, dirs, files,
                   checklistVars, kerasVars, jacobianVars>>

NextSave ==
    \/ \E name \in Names \cup {None} : save(name)
    \/ ResetFolderName
    \/ \E k \in {0, Scale - 1} : SetValSize(k)

SpecSave == Init /\ [][NextSave]_vars

---------------------------------------------------------------------------
(* The trained model: a subclass's train() fits the normalizer and builds  *)
(* keras_model (and, for some subclasses, keras_model_predict) around an   *)
(* input layer whose declared shape is (None,) + shape.                    *)

NdArray(a) == [kind |-> "ndarray", dims |-> a]
Model(shape) == [kind |-> "model", dims |-> shape]

LayerShapes == UNION {Shapes(r) : r \in 1..(MaxInferRank - 1)}

BuildModel(shape, predict) ==
    /\ pc = "idle"
    /\ input_mean' = [kind |-> "fitted", dims |-> <<>>]
    /\ keras_model' = Model(shape)
    /\ keras_model_predict' = IF predict THEN Model(shape) ELSE None
    /\ outcome' = Returned("train", None, 0)
    /\ UNCHANGED <<checklistVars, saveVars, jacobianVars>>

---------------------------------------------------------------------------
(* jacobian                                                                *)

(* Lines 216-221: the model whose input layer is used.                     *)
LookedUp == IF keras_model_predict # None THEN "keras_model_predict"
            ELSE IF keras_model # None THEN "keras_model" ELSE ""

InputLayer == IF keras_model_predict # None THEN keras_model_predict.dims
              ELSE keras_model.dims

(* len(input_shape_expectation): the batch axis and the layer's axes.      *)
ExpectationRank == Len(InputLayer) + 1

(* np.atleast_3d                                                           *)
atleast_3d(a) ==
    CASE ndim(a) = 1 -> <<1, a[1], 1>>
      [] ndim(a) = 2 -> <<a[1], a[2], 1>>
      [] OTHER -> a

(* tf.squeeze: the axes of size 1 are removed.                             *)
Squeeze(s) == SelectSeq(s, LAMBDA d : d # 1)

(* numpy assignment: the value's shape broadcasts to the target's.         *)
BroadcastsTo(v, t) ==
    /\ Len(v) <= Len(t)
    /\ \A k \in 0..(Len(v) - 1) : v[Len(v) - k] \in {1, t[Len(t) - k]}

(* session.run with feed_dict: the fed value's shape must agree with the   *)
(* placeholder's (None, d1, ...).                                          *)
FeedAccepted(x_in, layer) ==
    /\ Len(x_in) = Len(layer) + 1
    /\ \A k \in 1..Len(layer) : x_in[k + 1] = layer[k]

(* Lines 225 and 239: the branch taken for an expected rank (0: the else). *)
Branch(rank) == IF rank = 3 THEN 3 ELSE IF rank = 4 THEN 4 ELSE 0

(* ResultShape with the sample axis first.                                 *)
ResultShapeSamplesFirst(branch, L, x) ==
    IF branch = 3 THEN <<x[1], L, x[2]>>
    ELSE <<x[1], L, x[2], x[3], x[4]>>

(* Line 233 and lines 245-246: the shape of the array np.ones allocates.   *)
ResultShape(branch, L, x) ==
    IF branch = 3 THEN <<L, x[2], x[1]>>
    ELSE <<L, x[2], x[3], x[4], x[1]>>

(* Lines 237, 257 and 259: the slice of the result sample i is assigned.   *)
SliceShape(branch, mono, shape) ==
    IF branch = 3 THEN <<shape[1], shape[2]>>
    ELSE IF mono THEN <<shape[1], shape[2], shape[3]>>
    ELSE <<shape[1], shape[2], shape[3], shape[4]>>

(* The gradient evaluated for one sample: grad_list holds, for each of the *)
(* L output units, the list of the one gradient, shaped like the fed       *)
(* sample; squeezed.                                                       *)
GradientShape(L, x_in) == Squeeze(<<L, 1>> \o x_in)

(* The argument x as the outcome records it: None, or an array by its rank. *)
ArgOf(x) == IF x = None THEN None
            ELSE [kind |-> "ndarray", dims |-> <<ndim(x.dims)>>]

(* An exception leaves jacobian: its locals are gone.                      *)
JacobianRaise(arg, exc, msg, tr) ==
    /\ outcome' = [op |-> "jacobian", status |-> exc, msg |-> msg, n |-> 0,
                   arg |-> arg, did |-> tr]
    /\ pc' = "idle"
    /\ x_data' = <<>>
    /\ jac' = NoArray
    /\ i' = 0
    /\ monoflag' = FALSE

(* MissingInput without the test.                                          *)
MissingInputUnchecked(x) == FALSE

(* Line 209: the test for a missing x.                                     *)
MissingInput(x) == x = None

(* Lines 207-233 and 239-252: everything up to the sample loop.            *)
JacobianCall(x, mean_output) ==
    /\ pc = "idle"
    /\ UNCHANGED <<checklistVars, saveVars, kerasVars>>
    /\ IF MissingInput(x)
       THEN JacobianRaise(None, "ValueError",
                "Please provide data to calculate the jacobian", NoTrace)
       ELSE IF input_mean = None
       THEN JacobianRaise(ArgOf(x), "TypeError", "unsupported operand",
                          NoTrace)
       ELSE IF LookedUp = ""
       THEN JacobianRaise(ArgOf(x), "AttributeError", "get_layer", NoTrace)
       ELSE
       LET branch == Branch(ExpectationRank)
           tr0  == [NoTrace EXCEPT !.lookup = LookedUp, !.branch = branch,
                                   !.mean = mean_output]
           mono == branch = 4 /\ ndim(x.dims) < 4
           xd   == IF branch = 3 THEN atleast_3d(x.dims)
                   ELSE IF mono THEN Append(x.dims, 1) ELSE x.dims
           L    == labels_shape.dims[1]
       IN  IF branch = 0
           THEN JacobianRaise(ArgOf(x), "ValueError",
                    "Input data shape do not match neural network expectation",
                    tr0)
           ELSE IF mono /\ ndim(x.dims) < 3
           THEN JacobianRaise(ArgOf(x), "IndexError", "too many indices", tr0)
           ELSE IF labels_shape.kind # "int"
           THEN JacobianRaise(ArgOf(x), "TypeError", "labels_shape", tr0)
           ELSE IF keras_model = None
           THEN JacobianRaise(ArgOf(x), "AttributeError", "get_layer",
                    [tr0 EXCEPT !.allocated = (branch = 4)])
           ELSE /\ x_data' = xd
                /\ jac' = [shape |-> ResultShape(branch, L, xd),
                           written |-> [s \in 1..xd[1] |-> 0]]
                /\ i' = 0
                /\ monoflag' = mono
                /\ outcome' = [op |-> "jacobian", status |-> "running",
                               msg |-> "", n |-> 0, arg |-> ArgOf(x),
                               did |-> [tr0 EXCEPT !.built = 1,
                                                   !.allocated = TRUE]]
                /\ pc' = "loop"

(* Lines 235-237 and 254-259: one pass of the sample loop.                 *)
JacobianSample ==
    /\ pc = "loop"
    /\ i < x_data[1]
    /\ UNCHANGED <<checklistVars, saveVars, kerasVars>>
    /\ LET x_in == <<1>> \o Tail(x_data)
           tr   == [outcome.did EXCEPT !.runs = Append(@, i)]
           val  == GradientShape(labels_shape.dims[1], x_in)
       IN  IF ~FeedAccepted(x_in, InputLayer)
           THEN JacobianRaise(outcome.arg, "ValueError", "Cannot feed value",
                              tr)
           ELSE IF ~BroadcastsTo(val, SliceShape(tr.branch, monoflag,
                                                 jac.shape))
           THEN JacobianRaise(outcome.arg, "ValueError",
                              "could not broadcast", tr)
           ELSE /\ jac' = [jac EXCEPT !.written[i + 1] = @ + 1]
                /\ i' = i + 1
                /\ outcome' = [outcome EXCEPT !.did = tr]
                /\ UNCHANGED <<pc, x_data, monoflag>>

(* np.mean(jacobian, axis=-1)                                              *)
MeanLastAxis(shape) == SubSeq(shape, 1, Len(shape) - 1)

(* Lines 264-269: the loop is over; the result is returned.                *)
JacobianReturn ==
    /\ pc = "loop"
    /\ i = x_data[1]
    /\ outcome' = [outcome EXCEPT
                      !.status = "returned",
                      !.n = x_data[1],
                      !.did.ret = IF outcome.did.mean
                                  THEN MeanLastAxis(jac.shape)
                                  ELSE jac.shape]
    /\ pc' = "idle"
    /\ x_data' = <<>>
    /\ jac' = NoArray
    /\ i' = 0
    /\ monoflag' = FALSE
    /\ UNCHANGED <<checklistVars, saveVars, kerasVars>>

SampleArrays == ArraysOf(MaxSamples)

(* jacobian on every trained model: the checklist sets labels_shape (to 1, *)
(* MaxDim, a tuple, or leaves it None), train builds the model.            *)
NextJacobian ==
    \/ \E shape \in LayerShapes, predict \in BOOLEAN :
           BuildModel(shape, predict)
    \/ \E labels \in RankArrays :
           pre_training_checklist_master(labels, labels)
    \/ \E x \in {NdArray(a) : a \in SampleArrays} \cup {None},
          mean_output \in BOOLEAN : JacobianCall(x, mean_output)
    \/ JacobianSample
    \/ JacobianReturn

SpecJacobian == Init /\ [][NextJacobian]_vars

---------------------------------------------------------------------------
(* The whole class: every operation, on one array of each rank, saving to  *)
(* the run-numbered folder.                                                *)

Next ==
    \/ \E input_data \in RankArrays, labels \in RankArrays :
           pre_training_checklist_master(input_data, labels)
    \/ save(None)
    \/ \E predict \in BOOLEAN :
           /\ input_shape # None
           /\ BuildModel(input_shape.dims, predict)
    \/ \E x \in {NdArray(a) : a \in RankArrays} \cup {None} :
           JacobianCall(x, FALSE)
    \/ JacobianSample
    \/ JacobianReturn

Spec == Init /\ [][Next]_vars

---------------------------------------------------------------------------
(* Properties.                                                             *)

Checklist == "pre_training_checklist_master"

(* C1: after every call of pre_training_checklist_master, val_size is set  *)
(* (None became 0), val_num = floor(val_size * rows), num_train = rows -   *)
(* val_num, and num_train + val_num is the row count of input_data.        *)
C1_SplitPartitionsRows ==
    outcome.op = Checklist =>
        LET rows == outcome.n
            k    == IF val_size.kind = "int" THEN val_size.dims[1] * Scale
                    ELSE val_size.dims[1]
            vn   == val_num.dims[1]
            nt   == num_train.dims[1]
        IN  /\ val_size # None
            /\ val_num.kind = "int" /\ num_train.kind = "int"
            /\ vn * Scale <= rows * k /\ rows * k < (vn + 1) * Scale
            /\ nt = rows - vn
            /\ nt + vn = rows

(* A call whose val_size * rows is no integer, with a non-empty validation *)
(* part.                                                                   *)
C1_Witness ==
    /\ outcome.op = Checklist
    /\ val_size.kind = "float"
    /\ val_num.dims[1] > 0
    /\ (outcome.n * val_size.dims[1]) % Scale # 0

(* The rank-to-shape mapping of the specification, for ranks 1..4.         *)
ExpectedInputShape(a) ==
    IF Len(a) = 1 THEN PyTuple(<<1, 1>>)
    ELSE IF Len(a) = 4 THEN PyTuple(Tail(a))
    ELSE PyTuple(Append(Tail(a), 1))

ExpectedLabelsShape(l) ==
    IF Len(l) = 1 THEN PyInt(1)
    ELSE IF Len(l) = 2 THEN PyInt(l[2])
    ELSE PyTuple(Tail(l))

(* C2: a call of pre_training_checklist_master on a model whose            *)
(* input_shape and labels_shape are both unset, with input_data and labels *)
(* of rank 1..4, sets input_shape to (1,1) / (cols,1) / (d1,d2,1) /        *)
(* (d1,d2,d3) and labels_shape to 1 / cols / (d1,d2) / (d1,d2,d3).         *)
C2_ShapesInferredPerRank ==
    [][(input_shape = None /\ labels_shape = None) =>
          \A a \in ShapeArrays, l \in ShapeArrays :
              (/\ Len(a) <= MaxInferRank
               /\ Len(l) <= MaxInferRank
               /\ pre_training_checklist_master(a, l))
              => /\ input_shape' = ExpectedInputShape(a)
                 /\ labels_shape' = ExpectedLabelsShape(l)]_vars

(* Shapes that only a rank-3 input_data and rank-4 labels produce.         *)
C2_Witness ==
    /\ outcome.op = Checklist
    /\ input_shape = PyTuple(<<MaxDim, MaxDim, 1>>)
    /\ labels_shape = PyTuple(<<MaxDim, 1, MaxDim>>)

(* C3: pre_training_checklist_master never returns normally leaving        *)
(* input_shape or labels_shape unset (it fails for a rank outside 1..4).   *)
C3_UnmappedRankFails ==
    (outcome.op = Checklist /\ outcome.status = "returned") =>
        (input_shape # None /\ labels_shape # None)

(* C4: once input_shape and labels_shape are both inferred, every later    *)
(* call of pre_training_checklist_master, save, train or jacobian leaves   *)
(* them unchanged.                                                         *)
C4_ShapesFrozenOnceInferred ==
    [][(input_shape # None /\ labels_shape # None) =>
          (input_shape' = input_shape /\ labels_shape' = labels_shape)]_vars

(* The checklist was called again after a save that had already recorded   *)
(* the inferred shapes, and after a jacobian-ready model was built.        *)
C4_Witness ==
    /\ outcome.op = Checklist
    /\ input_shape # None /\ labels_shape # None
    /\ keras_model # None
    /\ \E f \in DOMAIN files : \E k \in 1..Len(files[f].text) :
           files[f].text[k] = [key |-> "Input Shape", value |-> input_shape]

(* C5: jacobian called without x ends with the ValueError asking for data  *)
(* and changes nothing: no attribute, no folder or file, no model looked   *)
(* up, no gradient graph built, no result allocated, no evaluation issued. *)
C5_MissingInputFailsFirst ==
    [][(pc = "idle" /\ outcome'.op = "jacobian" /\ outcome'.arg = None) =>
          /\ outcome'.status = "ValueError"
          /\ outcome'.msg = "Please provide data to calculate the jacobian"
          /\ outcome'.did = NoTrace
          /\ UNCHANGED <<checklistVars, saveVars, kerasVars, jacobianVars>>
      ]_vars

(* The call without x was made on a trained model.                         *)
C5_Witness ==
    /\ outcome.op = "jacobian" /\ outcome.arg = None
    /\ outcome.status = "ValueError"
    /\ input_mean # None /\ keras_model # None /\ labels_shape.kind = "int"

(* C6: on a trained model whose input layer declares rank 3 or 4, jacobian *)
(* given an x of rank 5 raises the shape-mismatch ValueError without       *)
(* allocating a result array and without any graph evaluation.             *)
C6_UnsupportedRankRejected ==
    (/\ pc = "idle"
     /\ outcome.op = "jacobian"
     /\ outcome.arg = [kind |-> "ndarray", dims |-> <<MaxInferRank + 1>>]
     /\ outcome.did.branch \in {3, 4}
     /\ labels_shape.kind = "int")
    => /\ outcome.status = "ValueError"
       /\ outcome.msg =
              "Input data shape do not match neural network expectation"
       /\ ~outcome.did.allocated
       /\ outcome.did.runs = <<>>

(* The key of every line of a block, in the order of the specification.    *)
HyperKeys ==
    <<"Model", "Model Type", "astroNN identifier", "Python Version",
      "astroNN Version", "Keras Version", "Tensorflow Version",
      "Folder Name", "Batch size", "Optimizer", "Maximum Epochs",
      "Learning Rate", "Validation Size", "Input Shape", "Label Shape",
      "Number of Training Data", "Number of Validation Data">>

SeparatorKeys == <<"\n", "======Another Run======">>

(* text is n >= 1 blocks with one separator between consecutive blocks.    *)
WellFormedRuns(text) ==
    LET period == Len(HyperKeys) + Len(SeparatorKeys)
    IN  /\ (Len(text) + Len(SeparatorKeys)) % period = 0
        /\ \A k \in 1..Len(text) :
              LET r == (k - 1) % period
              IN  text[k].key = IF r < Len(HyperKeys) THEN HyperKeys[r + 1]
                                ELSE SeparatorKeys[r - Len(HyperKeys) + 1]

IsPrefix(s, t) == Len(s) <= Len(t) /\ SubSeq(t, 1, Len(s)) = s

(* The value of line key in the last block of text.                        *)
LastValue(text, key) ==
    LET k == CHOOSE k \in (Len(text) - Len(HyperKeys) + 1)..Len(text) :
                 text[k].key = key
    IN  text[k].value

(* C7: a hyperparameter file is never truncated after its creation; it     *)
(* holds the blocks of the saves into its folder in call order, the first  *)
(* without a separator, every later one after one separator; a save's      *)
(* block is appended after the content the file had.                       *)
C7_HyperFileAppends ==
    /\ [](\A f \in DOMAIN files :
             /\ files[f].exists
             /\ WellFormedRuns(files[f].text)
             /\ f \in dirs)
    /\ [](outcome.op = "save" =>
             LET text == files[folder_name].text
             IN  /\ LastValue(text, "Folder Name") = folder_name
                 /\ LastValue(text, "Validation Size") = val_size
                 /\ LastValue(text, "Number of Validation Data") = val_num)
    /\ [][\A f \in DOMAIN files :
             /\ f \in DOMAIN files'
             /\ IsPrefix(files[f].text, files'[f].text)
             /\ (files'[f] # files[f] =>
                    /\ outcome'.op = "save" /\ folder_name' = f
                    /\ Len(files'[f].text) =
                          Len(files[f].text) + Len(SeparatorKeys)
                                             + Len(HyperKeys))]_vars

(* A file with two blocks that differ in their validation size.            *)
C7_Witness ==
    \E f \in DOMAIN files :
        LET text == files[f].text
        IN  /\ Len(text) = 2 * Len(HyperKeys) + Len(SeparatorKeys)
            /\ text[13].key = "Validation Size"
            /\ text[13].value # LastValue(text, "Validation Size")

(* C8: on success with mean_output False, jacobian returns an array shaped *)
(* (labels_shape, features, samples) for a rank-3 input layer and          *)
(* (labels_shape, d1, d2, d3, samples) for a rank-4 one; it builds one     *)
(* gradient graph and issues one evaluation per sample, in sample order,   *)
(* each writing the slice of its own sample once.                          *)
C8_JacobianShapeAndSamples ==
    /\ pc = "loop" =>
          /\ outcome.did.built = 1
          /\ Len(outcome.did.runs) = i
          /\ \A k \in 1..i : outcome.did.runs[k] = k - 1
          /\ DOMAIN jac.written = 1..x_data[1]
          /\ \A s \in 1..x_data[1] :
                jac.written[s] = IF s <= i THEN 1 ELSE 0
          /\ jac.shape[Len(jac.shape)] = x_data[1]
    /\ (outcome.op = "jacobian" /\ outcome.status = "returned") =>
          LET layer == IF keras_model_predict # None
                       THEN keras_model_predict.dims ELSE keras_model.dims
              L     == labels_shape.dims[1]
              ret   == outcome.did.ret
              full  == <<L>> \o (IF Len(layer) = 2 THEN <<layer[1]>>
                                 ELSE layer) \o <<outcome.n>>
          IN  /\ Len(layer) \in {2, 3}
              /\ outcome.did.built = 1
              /\ Len(outcome.did.runs) = outcome.n
              /\ \A k \in 1..outcome.n : outcome.did.runs[k] = k - 1
              /\ ~outcome.did.mean => ret = full
              /\ outcome.did.mean => ret = SubSeq(full, 1, Len(full) - 1)

(* A successful call on a rank-4 input layer with more than one sample and *)
(* more than one output unit.                                              *)
C8_Witness ==
    /\ outcome.op = "jacobian" /\ outcome.status = "returned"
    /\ ~outcome.did.mean
    /\ outcome.did.branch = 4
    /\ outcome.n > 1
    /\ labels_shape.dims[1] > 1

(* C9: save resolves its folder: an explicit name replaces folder_name; a  *)
(* set folder_name is kept when the name is absent; folder_runnum is asked *)
(* only when both are unset; folder_name stays set until the caller resets *)
(* it (so folder_runnum is asked at most once between resets); afterwards  *)
(* the folder exists and fullfilepath is currentdir joined with            *)
(* folder_name.                                                            *)
C9_FolderResolution ==
    /\ [][outcome'.op = "save" =>
             /\ outcome'.arg # None => folder_name' = outcome'.arg
             /\ (outcome'.arg = None /\ folder_name # None)
                    => folder_name' = folder_name
             /\ outcome'.n = 1 <=> (outcome'.arg = None /\ folder_name = None)
             /\ folder_name' \in dirs'
             /\ dirs \subseteq dirs'
             /\ fullfilepath' = [kind |-> "path",
                                 dims |-> <<currentdir,
                                            folder_name'.dims[1]>>]]_vars
    /\ [][(folder_name # None /\ outcome'.op # "reset folder_name")
             => folder_name' # None]_vars

(* A second save without a name kept the run-numbered folder of the first. *)
C9_Witness ==
    /\ outcome.op = "save" /\ outcome.arg = None /\ outcome.n = 0
    /\ folder_name.dims[1] >= 1
    /\ Len(files[folder_name].text) > Len(HyperKeys)

(* C10: a call of pre_training_checklist_master made while input_shape is  *)
(* set leaves labels_shape as it was, also when it is None; labels_shape   *)
(* is set after a call only if it was set before or input_shape was unset. *)
C10_LabelsInferredOnlyWithInput ==
    [][outcome'.op = Checklist =>
          /\ input_shape # None => labels_shape' = labels_shape
          /\ labels_shape' # None =>
                 (labels_shape # None \/ input_shape = None)]_vars

(* The checklist was called after a save that recorded a set input_shape   *)
(* and an unset labels_shape, and labels_shape is still unset.             *)
C10_Witness ==
    /\ outcome.op = Checklist
    /\ input_shape # None /\ labels_shape = None
    /\ \E f \in DOMAIN files : \E k \in 1..(Len(files[f].text) - 1) :
           /\ files[f].text[k] = [key |-> "Input Shape", value |-> input_shape]
           /\ files[f].text[k + 1] = [key |-> "Label Shape", value |-> None]

=============================================================================
